---- MODULE Spec2Model ----
(***************************************************************************)
(* Model of the AI support assistant: the Express backend (server/index.js *)
(* with its in-memory ticket store `analyzed`) and the React dashboard     *)
(* (client/src/App.jsx).                                                   *)
(*                                                                         *)
(* Conventions.                                                            *)
(*  - A JavaScript object is a function from field names to values; a     *)
(*    missing field is a name outside the DOMAIN.  Object spread           *)
(*    {a: 1, ...e} is  e @@ [a |-> 1]  (the later source wins).            *)
(*  - JavaScript strings are strings; the string functions the code uses   *)
(*    (toLowerCase, includes, split, replace, trim, slice) are computed    *)
(*    character by character with Len, SubSeq and \o.                      *)
(*  - Time is counted in ticks of ten minutes since the epoch (the seed    *)
(*    data is dated 10, 30, 120 and 240 minutes before start-up).  Dates   *)
(*    are written and read as ISO-8601 strings by toISOString / DateParse. *)
(*  - NaN is the number every comparison with which is false.              *)
(*  - The typographic dashes of the reply template and of the knowledge    *)
(*    base are written "-".                                                *)
(***************************************************************************)
EXTENDS Integers, Sequences, FiniteSets, TLC

\* ---------------------------------------------------------------- bounds
\* Date.now() when the server starts, in ticks.
Now0 == 150
\* The clock stops advancing here.
MaxNow == 151
\* The store holds at most this many tickets (four of them are the seed).
MaxTickets == 7
\* The dashboard sends at most this many respond requests.
MaxClicks == 2

\* ------------------------------------------------------- JavaScript values
\* The value of Number("abc"), of new Date("garbage").getTime(), ...
NaN == -1

IsNaN(x) == x = NaN

\* a === b on numbers
StrictEquals(a, b) == ~IsNaN(a) /\ ~IsNaN(b) /\ a = b

\* Math.max(a, b)
MathMax(a, b) == IF IsNaN(a) \/ IsNaN(b) THEN NaN ELSE IF a >= b THEN a ELSE b

\* a + b on numbers
Plus(a, b) == IF IsNaN(a) \/ IsNaN(b) THEN NaN ELSE a + b

\* The object with no fields.
EmptyObject == [f \in {} |-> ""]

Has(o, f) == f \in DOMAIN o

\* ----------------------------------------------------------------- strings
CharAt(s, i) == SubSeq(s, i, i)

UpperChars == "ABCDEFGHIJKLMNOPQRSTUVWXYZ"
LowerChars == "abcdefghijklmnopqrstuvwxyz"

\* The lower-case letter of each upper-case one.
LowerOf == [c \in {CharAt(UpperChars, i) : i \in 1..26} |->
              CharAt(LowerChars, CHOOSE i \in 1..26 : CharAt(UpperChars, i) = c)]

LowerChar(c) == IF c \in DOMAIN LowerOf THEN LowerOf[c] ELSE c

\* The pieces of a list of strings, put together in order.
RECURSIVE ConcatRange(_, _, _)
ConcatRange(pieces, lo, hi) ==
  IF lo > hi THEN ""
  ELSE IF lo = hi THEN pieces[lo]
  ELSE LET mid == (lo + hi) \div 2
       IN ConcatRange(pieces, lo, mid) \o ConcatRange(pieces, mid + 1, hi)

ConcatAll(pieces) == ConcatRange(pieces, 1, Len(pieces))

toLowerCase(s) == ConcatAll([i \in 1..Len(s) |-> LowerChar(CharAt(s, i))])

\* t.includes(w)
includes(t, w) ==
  \E i \in 1..(Len(t) - Len(w) + 1) : SubSeq(t, i, i + Len(w) - 1) = w

\* The least position where w occurs in t, 0 if none (t.indexOf(w) + 1).
IndexOf(t, w) ==
  IF includes(t, w)
  THEN CHOOSE i \in 1..(Len(t) - Len(w) + 1) :
         /\ SubSeq(t, i, i + Len(w) - 1) = w
         /\ \A j \in 1..(i - 1) : SubSeq(t, j, j + Len(w) - 1) # w
  ELSE 0

\* t.split(sep), sep non-empty
RECURSIVE split(_, _)
split(t, sep) ==
  LET i == IndexOf(t, sep)
  IN IF i = 0 THEN <<t>>
     ELSE <<SubSeq(t, 1, i - 1)>> \o split(SubSeq(t, i + Len(sep), Len(t)), sep)

\* parts.join(sep)
RECURSIVE join(_, _)
join(parts, sep) ==
  IF Len(parts) = 0 THEN ""
  ELSE IF Len(parts) = 1 THEN parts[1]
  ELSE parts[1] \o sep \o join(Tail(parts), sep)

\* parts.slice(0, n)
sliceTo(parts, n) == SubSeq(parts, 1, IF Len(parts) < n THEN Len(parts) ELSE n)

\* text.slice(0, n)
strSliceTo(t, n) == SubSeq(t, 1, IF Len(t) < n THEN Len(t) ELSE n)

IsSpace(c) == c \in {" ", "\n", "\t", "\r"}

\* text.replace(/\s+/g, ' '): each run of white space becomes one space.
collapseSpaces(t) ==
  ConcatAll([i \in 1..Len(t) |->
    IF ~IsSpace(CharAt(t, i)) THEN CharAt(t, i)
    ELSE IF i > 1 /\ IsSpace(CharAt(t, i - 1)) THEN "" ELSE " "])

\* text.trim()
trim(t) ==
  LET inked == {i \in 1..Len(t) : ~IsSpace(CharAt(t, i))}
  IN IF inked = {} THEN ""
     ELSE SubSeq(t, CHOOSE i \in inked : \A j \in inked : i <= j,
                    CHOOSE i \in inked : \A j \in inked : i >= j)

\* regex.test(t) for a regex that is an alternation of literal words
TestAny(words, t) == \E i \in 1..Len(words) : includes(t, words[i])

\* ------------------------------------------------------------------ numbers
Digits == "0123456789"

IsDigit(c) == \E i \in 1..10 : CharAt(Digits, i) = c

DigitValue(c) == (CHOOSE i \in 1..10 : CharAt(Digits, i) = c) - 1

IsDigits(s) == s # "" /\ \A i \in 1..Len(s) : IsDigit(CharAt(s, i))

RECURSIVE DecimalValue(_)
DecimalValue(s) ==
  IF s = "" THEN 0
  ELSE 10 * DecimalValue(SubSeq(s, 1, Len(s) - 1)) + DigitValue(CharAt(s, Len(s)))

\* Number(s) for a route parameter: a string of decimal digits is its value,
\* a string with a letter in it is NaN.
Number(s) == IF IsDigits(s) THEN DecimalValue(s) ELSE NaN

TwoDigits(n) == CharAt(Digits, (n \div 10) + 1) \o CharAt(Digits, (n % 10) + 1)

\* `${id}` for a ticket id below 100: its decimal text.
idText(n) == IF n < 10 THEN CharAt(Digits, n + 1) ELSE TwoDigits(n)

\* -------------------------------------------------------------------- dates
\* The length of a tick in minutes: the seed data is dated 1000*60*10 ms,
\* 1000*60*30 ms, ... before start-up.
TickMinutes == 10
HourTicks == 60 \div TickMinutes
\* Ticks in 24*3600*1000 ms.
DayTicks == 24 * HourTicks

\* new Date(t).toISOString() for an instant of January 1970, counted in ticks.
toISOString(t) ==
  "1970-01-" \o TwoDigits((t \div DayTicks) + 1) \o "T"
    \o TwoDigits((t % DayTicks) \div HourTicks) \o ":"
    \o TwoDigits((t % HourTicks) * TickMinutes) \o ":00.000Z"

\* new Date(s).getTime() in ticks: the instant an ISO string of that shape
\* names, NaN for any other string.
DateParse(s) ==
  IF /\ Len(s) = 24
     /\ SubSeq(s, 1, 8) = "1970-01-"
     /\ IsDigits(SubSeq(s, 9, 10))
     /\ CharAt(s, 11) = "T"
     /\ IsDigits(SubSeq(s, 12, 13))
     /\ CharAt(s, 14) = ":"
     /\ IsDigits(SubSeq(s, 15, 16))
     /\ SubSeq(s, 17, 24) = ":00.000Z"
     /\ DecimalValue(SubSeq(s, 9, 10)) >= 1
     /\ DecimalValue(SubSeq(s, 12, 13)) < 24
     /\ DecimalValue(SubSeq(s, 15, 16)) < 60
     /\ DecimalValue(SubSeq(s, 15, 16)) % TickMinutes = 0
  THEN (DecimalValue(SubSeq(s, 9, 10)) - 1) * DayTicks
         + DecimalValue(SubSeq(s, 12, 13)) * HourTicks
         + DecimalValue(SubSeq(s, 15, 16)) \div TickMinutes
  ELSE NaN

\* new Date(e.sent_date).getTime(); new Date(undefined) is an invalid date.
DateOf(e, f) == IF Has(e, f) THEN DateParse(e[f]) ELSE NaN

\* ---------------------------------------------------------------- utilities
POSITIVE_WORDS ==
  <<"thanks", "great", "good", "appreciate", "love", "happy", "resolved", "working">>

NEGATIVE_WORDS ==
  <<"issue", "error", "unable", "down", "blocked", "fail", "failed", "charge",
    "double", "immediately", "asap", "critical", "urgent", "frustrated", "angry",
    "not working", "cannot">>

URGENT_KEYWORDS ==
  <<"urgent", "immediately", "asap", "critical", "cannot access", "can't access",
    "down", "blocked", "system is down", "yesterday", "since yesterday",
    "reset link", "charged twice">>

\* How many words of a list occur in t.
Hits(words, t) == Cardinality({i \in 1..Len(words) : includes(t, words[i])})

\* A parameter with the default value '': text = ''
Text(o, f) == IF Has(o, f) THEN o[f] ELSE ""

scoreSentiment(text) ==
  LET t == toLowerCase(text)
      score == Hits(POSITIVE_WORDS, t) - Hits(NEGATIVE_WORDS, t)
  IN [score |-> score,
      label |-> IF score > 0 THEN "positive"
                ELSE IF score < 0 THEN "negative" ELSE "neutral"]

isUrgent(text) == TestAny(URGENT_KEYWORDS, toLowerCase(text))

TAG_KEYWORDS ==
  <<"billing", "login", "verification", "password", "reset", "integration", "api",
    "refund", "downtime", "subscription", "pricing">>

\* The tags of extractInfo.  Its phones and emails come from two regular
\* expressions that need a digit or an "@" to match; no body of this model
\* holds either, so both lists are empty.
extractInfo(text) ==
  LET lower == toLowerCase(text)
  IN [phones |-> <<>>,
      emails |-> <<>>,
      tags |-> SelectSeq(TAG_KEYWORDS, LAMBDA k : includes(lower, k))]

summarize(text) ==
  LET firstTwo == join(sliceTo(split(trim(collapseSpaces(text)), ". "), 2), ". ")
  IN IF firstTwo # "" THEN firstTwo ELSE strSliceTo(text, 160)

KB ==
  << [id |-> "kb_pricing", topic |-> "pricing",
      content |-> "Our pricing has Free, Pro, and Enterprise tiers. Pro is $49/month with priority support."],
     [id |-> "kb_refund", topic |-> "refund",
      content |-> "Refunds are processed within 5-7 business days after verification of the transaction."],
     [id |-> "kb_reset", topic |-> "password reset",
      content |-> "Use the reset link from the login page. If it expires, we can trigger a new link that is valid for 30 minutes."],
     [id |-> "kb_api", topic |-> "api integration",
      content |-> "We support REST webhooks and OAuth2. Rate limit is 1000 requests/min on Pro."],
     [id |-> "kb_verification", topic |-> "email verification",
      content |-> "Verification emails arrive within 2-3 minutes. Check spam; we can also verify manually if needed."] >>

\* The score retrieveKB gives entry k for the lowercased text t.
KBScore(k, t) ==
  LET ws == split(k.topic, " ")
  IN Cardinality({i \in 1..Len(ws) : includes(t, ws[i])})
       + (IF includes(t, ws[1]) THEN 1 ELSE 0)

\* ranked[0] of the stable sort by descending score: the first entry with the
\* highest score; 0 stands for null.
retrieveKB(text) ==
  LET t == toLowerCase(text)
      score == [i \in 1..Len(KB) |-> KBScore(KB[i], t)]
      best == CHOOSE i \in 1..Len(KB) :
                /\ \A j \in 1..Len(KB) : score[j] <= score[i]
                /\ \A j \in 1..(i - 1) : score[j] < score[i]
  IN IF score[best] # 0 THEN best ELSE 0

\* `${x}` in a template: the text of a field, "undefined" for a missing one.
Interpolate(o, f) == IF Has(o, f) THEN o[f] ELSE "undefined"

\* draftReply throws a TypeError when email.sender is undefined (sender.split).
draftReplyThrows(email) == ~Has(email, "sender")

draftReply(email) ==
  LET body == Text(email, "body")
      label == scoreSentiment(body).label
      urgent == isUrgent(body)
      kb == retrieveKB(body)
      empathy == IF label = "negative" \/ urgent
                 THEN "I'm really sorry for the trouble you're facing-thanks for flagging this."
                 ELSE "Happy to help-thanks for reaching out!"
      kbLine == IF kb # 0
                THEN "\n\nHere's some information that might help right away: " \o KB[kb].content
                ELSE ""
      nextSteps == IF urgent
                   THEN "I've prioritized your case and started an investigation. We will update you shortly."
                   ELSE "I've logged your request with our support team. We'll keep you posted."
  IN "Hi " \o split(email.sender, "@")[1] \o ",\n\n"
       \o empathy \o "\n\n"
       \o "Regarding your message: \"" \o Interpolate(email, "subject")
       \o "\"-here's a quick summary of what I understood: " \o summarize(body) \o ".\n\n"
       \o nextSteps \o kbLine \o "\n\n"
       \o "If you can share any additional details (screenshots, exact timestamps, last 4 digits of the transaction), it will help us resolve this faster.\n\n"
       \o "Best regards,\nSupport Assistant"

\* ---------------------------------------------------------------- seed data
emails0 ==
  << [id |-> 1, sender |-> "alice@example.com",
      subject |-> "Help required with account verification",
      body |-> "I am facing issues with verifying my account. The verification email never arrived. Can you assist? It's urgent.",
      sent_date |-> toISOString(Now0 - 3)],
     [id |-> 2, sender |-> "bob@customer.io",
      subject |-> "Immediate support needed for billing error",
      body |-> "There is a billing error where I was charged twice. This needs immediate correction.",
      sent_date |-> toISOString(Now0 - 12)],
     [id |-> 3, sender |-> "carol@company.org",
      subject |-> "Question: integration with API",
      body |-> "Do you support integration with third-party APIs? Specifically, I'm looking for CRM integration options.",
      sent_date |-> toISOString(Now0 - 24)],
     [id |-> 4, sender |-> "dave@startup.dev",
      subject |-> "Critical help needed for downtime",
      body |-> "Our servers are down, and we need immediate support. This is highly critical.",
      sent_date |-> toISOString(Now0 - 1)] >>

DISTRESS_WORDS == <<"down", "blocked", "unable", "failed", "error">>

\* analyzeEmail throws where draftReply does.
analyzeEmailThrows(e) == draftReplyThrows(e)

\* analyzeEmail with the record spread last, { sentiment, ..., ...e }: the
\* fields a record brings along win over the derived ones.
analyzeEmailSpreadLast(e) ==
  LET body == Text(e, "body")
      sentiment == scoreSentiment(body)
      urgent == \/ isUrgent(body)
                \/ sentiment.label = "negative" /\ TestAny(DISTRESS_WORDS, toLowerCase(body))
  IN e @@ [sentiment |-> sentiment,
           priority |-> IF urgent THEN "urgent" ELSE "normal",
           info |-> extractInfo(body),
           draft |-> draftReply(e),
           status |-> "pending"]

analyzeEmail(e) ==
  LET body == Text(e, "body")
      sentiment == scoreSentiment(body)
      urgent == \/ isUrgent(body)
                \/ sentiment.label = "negative" /\ TestAny(DISTRESS_WORDS, toLowerCase(body))
  IN [sentiment |-> sentiment,
      priority |-> IF urgent THEN "urgent" ELSE "normal",
      info |-> extractInfo(body),
      draft |-> draftReply(e),
      status |-> "pending"] @@ e

analyzed0 == [i \in 1..Len(emails0) |-> analyzeEmail(emails0[i])]

\* ----------------------------------------------------------------- the state
VARIABLES
  analyzed,   \* server: the ticket store
  now,        \* Date.now(), in ticks
  req,        \* the request the server handled last
  res,        \* the response it gave
  emails,     \* dashboard: useState([]) of the tickets shown
  stats,      \* dashboard: useState({}) of the counts shown
  net,        \* the dashboard's requests and responses in flight
  sent,       \* how many requests the dashboard has issued
  clicks,     \* how many times Send has been clicked
  failed      \* whether a request of the dashboard has failed

vars == <<analyzed, now, req, res, emails, stats, net, sent, clicks, failed>>
server == <<analyzed, now, req, res>>
client == <<emails, stats, net, sent, clicks, failed>>

\* ------------------------------------------------------------- GET /api/emails
SUPPORT_WORDS == <<"support", "query", "request", "help", "urgent", "issue", "error">>

\* /support|query|request|help|urgent|issue|error/i.test(e.subject)
isSupport(e) == TestAny(SUPPORT_WORDS, toLowerCase(Interpolate(e, "subject")))

\* `${e.subject} ${e.body}`.toLowerCase().includes(q)
matchesQuery(e, q) ==
  includes(toLowerCase(Interpolate(e, "subject") \o " " \o Interpolate(e, "body")), q)

\* The comparator of the sort, as Array.prototype.sort reads its result
\* (a NaN result counts as 0):
\*   (a.priority===b.priority ? 0 : a.priority==='urgent' ? -1 : 1)
\*     || new Date(b.sent_date) - new Date(a.sent_date)
compare(a, b) ==
  LET byPriority == IF a.priority = b.priority THEN 0
                    ELSE IF a.priority = "urgent" THEN -1 ELSE 1
      da == DateOf(a, "sent_date")
      db == DateOf(b, "sent_date")
  IN IF byPriority # 0 THEN byPriority
     ELSE IF IsNaN(da) \/ IsNaN(db) THEN 0
     ELSE db - da

\* Array.prototype.sort on an array shorter than 64, as Node's engine runs it:
\* the longest leading run (turned round when strictly descending), then
\* binary insertion of every later element.
RECURSIVE runEnd(_, _, _)
runEnd(a, descending, idx) ==
  IF idx > Len(a) THEN Len(a)
  ELSE LET order == compare(a[idx], a[idx - 1])
       IN IF (descending /\ order >= 0) \/ (~descending /\ order < 0)
          THEN idx - 1
          ELSE runEnd(a, descending, idx + 1)

reverse(a) == [i \in 1..Len(a) |-> a[Len(a) + 1 - i]]

RECURSIVE insertionPoint(_, _, _, _)
insertionPoint(a, pivot, left, right) ==
  IF left >= right THEN left
  ELSE LET mid == left + ((right - left) \div 2)
       IN IF compare(pivot, a[mid]) < 0
          THEN insertionPoint(a, pivot, left, mid)
          ELSE insertionPoint(a, pivot, mid + 1, right)

RECURSIVE binaryInsertionSort(_, _)
binaryInsertionSort(a, start) ==
  IF start > Len(a) THEN a
  ELSE LET left == insertionPoint(a, a[start], 1, start)
           moved == SubSeq(a, 1, left - 1) \o <<a[start]>>
                      \o SubSeq(a, left, start - 1) \o SubSeq(a, start + 1, Len(a))
       IN binaryInsertionSort(moved, start + 1)

sort(a) ==
  IF Len(a) < 2 THEN a
  ELSE LET descending == compare(a[2], a[1]) < 0
           n == runEnd(a, descending, 3)
           run == IF descending THEN reverse(SubSeq(a, 1, n)) ELSE SubSeq(a, 1, n)
       IN binaryInsertionSort(run \o SubSeq(a, n + 1, Len(a)), n + 1)

\* The handler of GET /api/emails: the response to query object `query`.
emailsHandler(store, query) ==
  LET q == toLowerCase(Text(query, "q"))
      support == SelectSeq(store, isSupport)
      out == IF q # "" THEN SelectSeq(support, LAMBDA e : matchesQuery(e, q)) ELSE support
  IN [status |-> 200, body |-> sort(out), store |-> store]

\* -------------------------------------------------------- POST /api/respond/:id
\* analyzed.findIndex(e => e.id === id), counted from 1; 0 when there is none
findIndex(store, id) ==
  IF \E i \in 1..Len(store) : StrictEquals(store[i].id, id)
  THEN CHOOSE i \in 1..Len(store) :
         /\ StrictEquals(store[i].id, id)
         /\ \A j \in 1..(i - 1) : ~StrictEquals(store[j].id, id)
  ELSE 0

\* reply || draft
orElse(o, f, other) == IF Has(o, f) /\ o[f] # "" THEN o[f] ELSE other

\* respondHandler without the early return for idx < 0: analyzed[-1] is
\* undefined, the assignment throws and Express answers 500.
respondHandlerUnguarded(store, id_param, body, t) ==
  LET id == Number(id_param)
      idx == findIndex(store, id)
  IN IF idx < 1
     THEN [status |-> 500, body |-> [error |-> "TypeError"], store |-> store]
     ELSE LET item == [reply |-> orElse(body, "reply", store[idx].draft),
                       status |-> "resolved",
                       resolved_at |-> toISOString(t)] @@ store[idx]
          IN [status |-> 200, body |-> [ok |-> TRUE, item |-> item],
              store |-> [store EXCEPT ![idx] = item]]

\* The handler of POST /api/respond/:id at time t.
respondHandler(store, id_param, body, t) ==
  LET id == Number(id_param)
      idx == findIndex(store, id)
  IN IF idx < 1
     THEN [status |-> 404, body |-> [error |-> "not found"], store |-> store]
     ELSE LET item == [reply |-> orElse(body, "reply", store[idx].draft),
                       status |-> "resolved",
                       resolved_at |-> toISOString(t)] @@ store[idx]
          IN [status |-> 200, body |-> [ok |-> TRUE, item |-> item],
              store |-> [store EXCEPT ![idx] = item]]

\* --------------------------------------------------------------- GET /api/stats
\* statsHandler counting as resolved the tickets that have a reply.
statsHandlerByReply(store, t) ==
  LET within24(e) == /\ ~IsNaN(DateOf(e, "sent_date"))
                     /\ t - DateOf(e, "sent_date") <= DayTicks
  IN [status |-> 200,
      body |-> [total24 |-> Len(SelectSeq(store, within24)),
                resolved |-> Len(SelectSeq(store, LAMBDA e : Has(e, "reply"))),
                pending |-> Len(SelectSeq(store, LAMBDA e : e.status # "resolved")),
                bySentiment |->
                  [k \in {"positive", "neutral", "negative"} |->
                     Len(SelectSeq(store, LAMBDA e : e.sentiment.label = k))],
                byPriority |->
                  [k \in {"urgent", "normal"} |->
                     Len(SelectSeq(store, LAMBDA e : e.priority = k))]],
      store |-> store]

statsHandler(store, t) ==
  LET within24(e) == /\ ~IsNaN(DateOf(e, "sent_date"))
                     /\ t - DateOf(e, "sent_date") <= DayTicks
  IN [status |-> 200,
      body |-> [total24 |-> Len(SelectSeq(store, within24)),
                resolved |-> Len(SelectSeq(store, LAMBDA e : e.status = "resolved")),
                pending |-> Len(SelectSeq(store, LAMBDA e : e.status # "resolved")),
                bySentiment |->
                  [k \in {"positive", "neutral", "negative"} |->
                     Len(SelectSeq(store, LAMBDA e : e.sentiment.label = k))],
                byPriority |->
                  [k \in {"urgent", "normal"} |->
                     Len(SelectSeq(store, LAMBDA e : e.priority = k))]],
      store |-> store]

\* -------------------------------------------------------------- POST /api/ingest
\* analyzed.reduce((m,e)=>Math.max(m,e.id),0)
RECURSIVE maxId(_, _)
maxId(store, n) == IF n = 0 THEN 0 ELSE MathMax(maxId(store, n - 1), store[n].id)

\* items.map((e,i)=>({ id: startId+i, ...e }))
expand(items, startId) ==
  [i \in 1..Len(items) |-> items[i] @@ [id |-> Plus(startId, i - 1)]]

\* ingestHandler pushing without the spread, analyzed.push(expanded.map(...)[0]):
\* one entry is stored however long the array is.
ingestHandlerPushOne(store, payload) ==
  LET items == IF payload.array THEN payload.items ELSE <<>>
      startId == Plus(maxId(store, Len(store)), 1)
      expanded == expand(items, startId)
  IN IF \E i \in 1..Len(expanded) : analyzeEmailThrows(expanded[i])
     THEN [status |-> 500, body |-> [error |-> "TypeError"], store |-> store]
     ELSE [status |-> 200, body |-> [added |-> Len(expanded)],
           store |-> store \o [i \in 1..(IF Len(expanded) > 0 THEN 1 ELSE 0) |->
                                 analyzeEmail(expanded[i])]]

\* The handler of POST /api/ingest.  payload.array says whether the JSON body
\* is an array, payload.items are its entries.  An exception of analyzeEmail
\* leaves the handler before the push; Express answers 500.
ingestHandler(store, payload) ==
  LET items == IF payload.array THEN payload.items ELSE <<>>
      startId == Plus(maxId(store, Len(store)), 1)
      expanded == expand(items, startId)
  IN IF \E i \in 1..Len(expanded) : analyzeEmailThrows(expanded[i])
     THEN [status |-> 500, body |-> [error |-> "TypeError"], store |-> store]
     ELSE [status |-> 200, body |-> [added |-> Len(expanded)],
           store |-> store \o [i \in 1..Len(expanded) |-> analyzeEmail(expanded[i])]]
\* ------------------------------------------------------------------ the inputs
\* JSON records a client may post to /api/ingest.
\* no sent_date
recNoDate ==
  [sender |-> "eve@shop.io", subject |-> "Request: pricing",
   body |-> "Thanks, great pricing"]

\* an empty body
recLate ==
  [sender |-> "frank@corp.com", subject |-> "API query", body |-> "",
   sent_date |-> toISOString(Now0)]

\* extra fields: an id of its own, a status, a reply, a priority
recOwnId ==
  [id |-> 1, sender |-> "mallory@x.org", subject |-> "Login help",
   body |-> "Please reset my password", sent_date |-> toISOString(0),
   status |-> "resolved", reply |-> "done", priority |-> "low"]

\* no sender
recNoSender ==
  [subject |-> "help", body |-> "x", sent_date |-> toISOString(Now0 - 1)]

Records == {recNoDate, recLate, recOwnId, recNoSender}

\* Request bodies of POST /api/ingest: an array of one record, a JSON object
\* that is no array, and two arrays of two records.
Payloads ==
  {[array |-> TRUE, items |-> <<r>>] : r \in Records}
    \cup {[array |-> FALSE, items |-> <<>>],
          [array |-> TRUE, items |-> <<recLate, recNoSender>>],
          [array |-> TRUE, items |-> <<recOwnId, recLate>>]}

\* The :id of POST /api/respond/:id.
RespondIds == {"1", "9", "abc"}

\* Request bodies of POST /api/respond/:id.
RespondBodies == {EmptyObject, [reply |-> ""], [reply |-> "On it"]}

\* Query objects of GET /api/emails.
Queries == {EmptyObject, [q |-> "HELP"], [q |-> "pricing"]}

\* ------------------------------------------------------------------ the server
Init ==
  /\ analyzed = analyzed0
  /\ now = Now0
  /\ req = [op |-> "none"]
  /\ res = [status |-> 0]
  /\ emails = <<>>
  /\ stats = EmptyObject
  /\ net = {}
  /\ sent = 0
  /\ clicks = 0
  /\ failed = FALSE

Answer(r) == [status |-> r.status, body |-> r.body]

GetEmails(query) ==
  LET r == emailsHandler(analyzed, query)
  IN /\ analyzed' = r.store
     /\ req' = [op |-> "emails", query |-> query]
     /\ res' = Answer(r)
     /\ UNCHANGED <<now, client>>

PostRespond(id_param, body) ==
  LET r == respondHandler(analyzed, id_param, body, now)
  IN /\ analyzed' = r.store
     /\ req' = [op |-> "respond", id |-> id_param, body |-> body]
     /\ res' = Answer(r)
     /\ UNCHANGED <<now, client>>

GetStats ==
  LET r == statsHandler(analyzed, now)
  IN /\ analyzed' = r.store
     /\ req' = [op |-> "stats"]
     /\ res' = Answer(r)
     /\ UNCHANGED <<now, client>>

PostIngest(payload) ==
  /\ Len(analyzed) + Len(payload.items) <= MaxTickets
  /\ LET r == ingestHandler(analyzed, payload)
     IN /\ analyzed' = r.store
        /\ req' = [op |-> "ingest", payload |-> payload]
        /\ res' = Answer(r)
        /\ UNCHANGED <<now, client>>

\* Time passes between two requests.
Tick ==
  /\ now < MaxNow
  /\ now' = now + 1
  /\ UNCHANGED <<analyzed, req, res, client>>

Emails == \E query \in Queries : GetEmails(query)
Respond == \E id_param \in RespondIds, body \in RespondBodies : PostRespond(id_param, body)
Ingest == \E payload \in Payloads : PostIngest(payload)

Next == Emails \/ Respond \/ GetStats \/ Ingest \/ Tick

Spec == Init /\ [][Next]_vars
\* --------------------------------------------------------------- the dashboard
\* A request of the dashboard on its way to the server.
Request(n, kind, id_param, body) ==
  [n |-> n, kind |-> kind, stage |-> "request", id |-> id_param, body |-> body]

\* The server's answer on its way back.
Response(m, r) ==
  [n |-> m.n, kind |-> m.kind, stage |-> "response", status |-> r.status, body |-> r.body]

\* axios resolves on a 2xx status and rejects on any other.
resolves(m) == m.status >= 200 /\ m.status < 300

\* useEffect(() => { fetchEmails(); fetchStats(); }, [])
Mount ==
  /\ sent = 0
  /\ net' = {Request(1, "emails", "", EmptyObject), Request(2, "stats", "", EmptyObject)}
  /\ sent' = 2
  /\ UNCHANGED <<server, emails, stats, clicks, failed>>

\* The Send button of row i: handleRespond(email.id, email.reply) posts to
\* `${API_BASE}/api/respond/${id}`.
Click(i) ==
  /\ clicks < MaxClicks
  /\ net' = net \cup {Request(sent + 1, "respond", idText(emails[i].id),
                              [reply |-> emails[i].reply])}
  /\ sent' = sent + 1
  /\ clicks' = clicks + 1
  /\ UNCHANGED <<server, emails, stats, failed>>

\* The server handles request m of the dashboard.
Serve(m) ==
  /\ m.stage = "request"
  /\ LET r == IF m.kind = "emails" THEN emailsHandler(analyzed, EmptyObject)
              ELSE IF m.kind = "stats" THEN statsHandler(analyzed, now)
              ELSE respondHandler(analyzed, m.id, m.body, now)
     IN /\ analyzed' = r.store
        /\ req' = [op |-> m.kind, id |-> m.id, body |-> m.body]
        /\ res' = Answer(r)
        /\ net' = (net \ {m}) \cup {Response(m, r)}
  /\ UNCHANGED <<now, emails, stats, sent, clicks, failed>>

\* formattedEmails of fetchEmails
formatEmails(data) ==
  [i \in 1..Len(data) |->
     [sentiment |-> data[i].sentiment.label,
      priority |-> data[i].priority,
      reply |-> orElse(data[i], "reply", "")] @@ data[i]]

\* The response m reaches the dashboard: the await returns, or throws into
\* the catch, which only logs.
Deliver(m) ==
  /\ m.stage = "response"
  /\ IF ~resolves(m)
     THEN /\ net' = net \ {m}
          /\ failed' = TRUE
          /\ UNCHANGED <<emails, stats, sent>>
     ELSE /\ failed' = failed
          /\ IF m.kind = "emails"
             THEN /\ emails' = formatEmails(m.body)
                  /\ net' = net \ {m}
                  /\ UNCHANGED <<stats, sent>>
             ELSE IF m.kind = "stats"
             THEN /\ stats' = m.body
                  /\ net' = net \ {m}
                  /\ UNCHANGED <<emails, sent>>
             ELSE /\ net' = (net \ {m})
                       \cup {Request(sent + 1, "emails", "", EmptyObject),
                             Request(sent + 2, "stats", "", EmptyObject)}
                  /\ sent' = sent + 2
                  /\ UNCHANGED <<emails, stats>>
  /\ UNCHANGED <<server, clicks>>

\* A network error: the request never arrives, or its response never comes
\* back; axios rejects and the catch logs.
Lose(m) ==
  /\ net' = net \ {m}
  /\ failed' = TRUE
  /\ UNCHANGED <<server, emails, stats, sent, clicks>>

Send == \E i \in 1..Len(emails) : Click(i)
Served == \E m \in net : Serve(m)
Delivered == \E m \in net : Deliver(m)
Lost == \E m \in net : Lose(m)

NextUI == Mount \/ Send \/ Served \/ Delivered \/ Lost

SpecUI == Init /\ [][NextUI]_vars

\* ------------------------------------------------------------------ vocabulary
Tickets == 1..Len(analyzed)

\* The step is the server handling a request of kind op.
Handled(op) == req'.op = op /\ <<analyzed', req', res'>> # <<analyzed, req, res>>

\* Ticket t carries the four documented fields of record r.
Carries(t, r) ==
  \A f \in {"sender", "subject", "body", "sent_date"} :
    Has(r, f) => Has(t, f) /\ t[f] = r[f]

\* Ticket t is addressed by the route parameter id_param.
Addressed(t, id_param) == idText(t.id) = id_param

SomeResolved == \E i \in Tickets : analyzed[i].status = "resolved"

\* ---------------------------------------------------------------------- C1
UniqueIds == \A i, j \in Tickets : i # j => analyzed[i].id # analyzed[j].id

\* C1: no two tickets of the store have the same id, and the id of a ticket
\* in the store never changes, whatever records are ingested.
C1_IdsUniqueAndStable ==
  /\ UniqueIds
  /\ [][/\ UniqueIds'
        /\ \A i \in Tickets : i <= Len(analyzed') /\ analyzed'[i].id = analyzed[i].id]_vars

\* ---------------------------------------------------------------------- C2
\* C2: every ticket enters the store pending; the only change of status is
\* pending to resolved, made by a respond request on that ticket's id; a
\* resolved ticket stays resolved; no ticket leaves the store.
C2_StatusLifecycle ==
  /\ \A i \in Tickets : analyzed[i].status = "pending"
  /\ [][/\ Len(analyzed') >= Len(analyzed)
        /\ \A i \in Tickets :
             /\ Carries(analyzed'[i], analyzed[i]) /\ analyzed'[i].id = analyzed[i].id
             /\ analyzed[i].status = "resolved" => analyzed'[i].status = "resolved"
             /\ analyzed'[i].status # analyzed[i].status =>
                  /\ analyzed[i].status = "pending"
                  /\ analyzed'[i].status = "resolved"
                  /\ Handled("respond")
                  /\ Addressed(analyzed[i], req'.id)
        /\ \A i \in (Len(analyzed) + 1)..Len(analyzed') :
             analyzed'[i].status = "pending"]_vars

\* A record posted with status "resolved" sits in the store, pending, beside a
\* ticket that a respond request resolved.
C2_Witness ==
  /\ SomeResolved
  /\ \E i \in Tickets : analyzed[i].sender = recOwnId.sender /\ analyzed[i].status = "pending"

\* ---------------------------------------------------------------------- C3
expectedReply(body, t) ==
  IF Has(body, "reply") /\ body.reply # "" THEN body.reply ELSE t.draft

\* C3: a respond request on an id that a pending ticket of the store has
\* answers 200 {ok: true, item}, leaves that ticket resolved, with resolved_at
\* set and with the submitted reply (the draft when the reply is empty or
\* missing), and leaves every other ticket as it was.
C3_RespondResolvesPending ==
  [][(/\ Handled("respond")
      /\ \E i \in Tickets : Addressed(analyzed[i], req'.id) /\ analyzed[i].status = "pending")
     => /\ res'.status = 200
        /\ res'.body.ok
        /\ Len(analyzed') = Len(analyzed)
        /\ \E i \in Tickets :
             /\ Addressed(analyzed[i], req'.id) /\ analyzed[i].status = "pending"
             /\ analyzed'[i].status = "resolved"
             /\ Has(analyzed'[i], "resolved_at")
             /\ analyzed'[i].reply = expectedReply(req'.body, analyzed[i])
             /\ res'.body.item = analyzed'[i]
             /\ \A j \in Tickets \ {i} : analyzed'[j] = analyzed[j]]_vars

\* ---------------------------------------------------------------------- C4
\* C4: a respond request whose id no ticket has (a number no ticket carries,
\* or no number at all) answers 404 {error: "not found"} and changes nothing
\* in the store.
C4_RespondNotFound ==
  [][(/\ Handled("respond")
      /\ ~\E i \in Tickets : Addressed(analyzed[i], req'.id))
     => /\ res'.status = 404
        /\ res'.body = [error |-> "not found"]
        /\ analyzed' = analyzed]_vars

\* A non-numeric id has been answered 404 by a store that holds resolved and
\* ingested tickets.
C4_Witness ==
  /\ req.op = "respond" /\ req.id = "abc" /\ res.status = 404
  /\ SomeResolved
  /\ Len(analyzed) > Len(analyzed0)

\* ---------------------------------------------------------------------- C5
\* C5: in every state of the store the resolved and pending counts of
\* GET /api/stats add up to the number of tickets, and so do the three
\* bySentiment counts and the two byPriority counts.
C5_StatsConsistent ==
  LET b == statsHandler(analyzed, now).body
  IN /\ b.resolved + b.pending = Len(analyzed)
     /\ b.bySentiment["positive"] + b.bySentiment["neutral"] + b.bySentiment["negative"]
          = Len(analyzed)
     /\ b.byPriority["urgent"] + b.byPriority["normal"] = Len(analyzed)

\* The stats of a store with resolved, pending and ingested tickets, one of
\* them posted with a priority and a reply of its own, have been served.
C5_Witness ==
  /\ req.op = "stats" /\ res.status = 200
  /\ res.body.resolved >= 1 /\ res.body.pending >= 1
  /\ res.body.bySentiment["positive"] >= 1
  /\ \E i \in Tickets : analyzed[i].sender = recOwnId.sender

\* ---------------------------------------------------------------------- C6
WellFormed(r) == \A f \in {"sender", "subject", "body", "sent_date"} : Has(r, f)

\* C6: after an ingest of records that carry sender, subject, body and
\* sent_date, the response's added is the number of tickets the store grew
\* by, and GET /api/emails without q returns, for each record whose subject
\* matches the support regex, a pending ticket with that record's sender,
\* subject, body and sent_date and a non-empty draft.
C6_IngestRoundTrip ==
  [][(/\ Handled("ingest")
      /\ \A k \in 1..Len(req'.payload.items) : WellFormed(req'.payload.items[k]))
     => /\ res'.status = 200
        /\ res'.body.added = Len(analyzed') - Len(analyzed)
        /\ req'.payload.array => res'.body.added = Len(req'.payload.items)
        /\ LET out == emailsHandler(analyzed', EmptyObject).body
           IN \A k \in 1..Len(req'.payload.items) :
                LET r == req'.payload.items[k]
                IN (req'.payload.array /\ isSupport(r)) =>
                     \E j \in 1..Len(out) :
                       /\ Carries(out[j], r)
                       /\ out[j].status = "pending"
                       /\ out[j].draft # ""]_vars

\* An array of two well-formed records has been ingested.
C6_Witness ==
  /\ req.op = "ingest" /\ res.status = 200 /\ res.body.added = 2
  /\ analyzed[Len(analyzed)].sender = recLate.sender

\* ---------------------------------------------------------------------- C7
\* C7: ingest validates nothing: a record that lacks sender, subject, body or
\* sent_date is analysed and appended as a pending ticket all the same, and
\* the request answers 200 with added equal to the length of the array.
C7_IngestNoValidation ==
  [][(Handled("ingest") /\ req'.payload.array)
     => /\ res'.status = 200
        /\ res'.body.added = Len(req'.payload.items)
        /\ Len(analyzed') = Len(analyzed) + Len(req'.payload.items)
        /\ \A k \in 1..Len(req'.payload.items) :
             /\ Carries(analyzed'[Len(analyzed) + k], req'.payload.items[k])
             /\ analyzed'[Len(analyzed) + k].status = "pending"]_vars

\* ---------------------------------------------------------------------- C8
Later(a, b) ==
  /\ ~IsNaN(DateOf(a, "sent_date"))
  /\ ~IsNaN(DateOf(b, "sent_date"))
  /\ DateOf(a, "sent_date") > DateOf(b, "sent_date")

Occurrences(list, e) == Cardinality({i \in 1..Len(list) : list[i] = e})

\* C8: GET /api/emails returns exactly the tickets whose subject matches the
\* support regex (and whose subject and body contain q, case-insensitively,
\* when q is given), no normal ticket before an urgent one and, among tickets
\* of equal priority, no ticket before one with a later sent_date; the store
\* is left as it was.
C8_EmailsFilteredAndOrdered ==
  [][Handled("emails")
     => LET out == res'.body
            q == toLowerCase(Text(req'.query, "q"))
            wanted == SelectSeq(analyzed,
                        LAMBDA e : isSupport(e) /\ (q = "" \/ matchesQuery(e, q)))
        IN /\ res'.status = 200
           /\ Len(out) = Len(wanted)
           /\ \A i \in 1..Len(wanted) :
                Occurrences(out, wanted[i]) = Occurrences(wanted, wanted[i])
           /\ \A i, j \in 1..Len(out) :
                i < j =>
                  /\ ~(out[i].priority = "normal" /\ out[j].priority = "urgent")
                  /\ out[i].priority = out[j].priority => ~Later(out[j], out[i])
           /\ analyzed' = analyzed]_vars

\* ---------------------------------------------------------------------- C9
\* C9: once a ticket is resolved no later request changes its reply or its
\* resolved_at; a ticket that is still pending has neither.
C9_ResolvedIsTerminal ==
  /\ \A i \in Tickets :
       analyzed[i].status = "pending" =>
         ~Has(analyzed[i], "reply") /\ ~Has(analyzed[i], "resolved_at")
  /\ [][/\ \A i \in Tickets :
             analyzed[i].status = "resolved" =>
               /\ analyzed'[i].reply = analyzed[i].reply
               /\ analyzed'[i].resolved_at = analyzed[i].resolved_at
        /\ \A i \in 1..Len(analyzed') :
             analyzed'[i].status = "pending" =>
               ~Has(analyzed'[i], "reply") /\ ~Has(analyzed'[i], "resolved_at")]_vars
\* ---------------------------------------------------------------------- C10
Reconciled ==
  (net = {} /\ ~failed) =>
    \A i \in 1..Len(emails), j \in Tickets :
      analyzed[j].id = emails[i].id => emails[i].status = analyzed[j].status

\* C10: whatever the order of Send clicks and of the responses, once no
\* request is in flight every ticket the dashboard shows has the status it
\* has in the store; and a request that fails leaves the dashboard's emails
\* and stats as they were.
C10_DashboardReconciled ==
  /\ Reconciled
  /\ [][/\ Reconciled'
        /\ \A m \in net :
             (Lose(m) \/ (Deliver(m) /\ m.stage = "response" /\ ~resolves(m)))
               => emails' = emails /\ stats' = stats]_vars
====
